---- MODULE Spec2Model ----
(***************************************************************************)
(* The AMP server run by the Portal (Gateway): evennia/server/portal/      *)
(* amp_server.py.  One AMPServerFactory, the AMPServerProtocol instances   *)
(* it builds (one per connection), the Portal attributes they read and     *)
(* write, and the peers (launcher, Server processes) that drive them.      *)
(***************************************************************************)
EXTENDS Integers, FiniteSets, Sequences, TLC

(* ---- bounds ---- *)
MaxConns == 2       \* protocol instances the factory builds
MaxSpawns == 2      \* calls of start_server (Popen attempts)
MaxFired == 2       \* callback invocations recorded per connection

Conns == 1..MaxConns
Pids == 1..MaxSpawns
Cmds == {"run-core", "run-alt"}
SessIds == {101, 102}
Blobs == {"b1"}
SyncBlobs == {"b2"}

(* ---- Python None, per type ---- *)
NoConn == 0
NonePid == -1
NoCmd == "None"
InitBlob == "b0"

(* ---- operation codes (amp.SSTART, ...) ---- *)
SSTART == "SSTART"
SRELOAD == "SRELOAD"
SRESET == "SRESET"
SSHUTD == "SSHUTD"
PSHUTD == "PSHUTD"
SLOGIN == "SLOGIN"
SDISCONN == "SDISCONN"
SDISCONNALL == "SDISCONNALL"
PSYNC == "PSYNC"
SSYNC == "SSYNC"
SCONN == "SCONN"
BADOP == "BADOP"

LauncherOps == {SSTART, SRELOAD, SRESET, SSHUTD, PSHUTD, BADOP}
AdminOps == {SLOGIN, SDISCONN, SDISCONNALL, SRELOAD, SRESET, SSHUTD, PSHUTD,
             PSYNC, SSYNC, SCONN, BADOP}

VARIABLES
    transport,             \* per protocol instance: "none" (not built), "open", "closed"
    peer,                  \* who is at the other end of each connection
    amp_protocol,          \* portal.amp_protocol: the protocol built last
    server_connection,     \* factory.server_connection
    disconnect_callbacks,  \* factory.disconnect_callbacks: protocol -> (callback, args)
    server_process_id,     \* portal.server_process_id
    server_twistd_cmd,     \* portal.server_twistd_cmd
    server_restart_mode,   \* factory.server_restart_mode
    portal_running,        \* FALSE once portal.shutdown() ran
    sessions,              \* portal.sessions: sessid -> synced state blob
    pending,               \* per connection: TRUE while outbound calls still await their reply
    alive,                 \* Server processes spawned and still running
    nspawn,                \* number of Popen attempts so far
    lastSpawn,             \* the most recent Popen attempt
    adminConn,             \* the connection the latest admin message of a Server came in on
    lastReg,               \* per connection: what the handlers last asked wait_for_disconnect for
    fired,                 \* per connection: the callbacks connectionLost invoked, in order
    last,                  \* the step just taken and the reply it produced
    logged                 \* sessid -> the blob its latest SLOGIN stored in the registry

vars == <<transport, peer, amp_protocol, server_connection, disconnect_callbacks,
          server_process_id, server_twistd_cmd, server_restart_mode, portal_running,
          sessions, pending, alive, nspawn, lastSpawn, adminConn,
          lastReg, fired, last, logged>>

(* ---- values ---- *)
NoPeer == [role |-> "none", pid |-> 0]
LauncherPeer == [role |-> "launcher", pid |-> 0]
ServerPeer(p) == [role |-> "server", pid |-> p]

NoCallback == [fn |-> "None", arg |-> "None"]
\* the registration of start_server without the cached command
StartServerCb_nocmd(cmd) == [fn |-> "start_server", arg |-> NoCmd]
\* (self.start_server, server_twistd_cmd) as wait_for_disconnect stores it
StartServerCb(cmd) == [fn |-> "start_server", arg |-> cmd]
ShutdownCb == [fn |-> "portal.shutdown", arg |-> "restart=False"]

NoReply == [kind |-> "none"]
Retval(success, txt, spid) == [kind |-> "retval", success |-> success, txt |-> txt, spid |-> spid]
Fallback == [kind |-> "empty"]
EmptyReply == [kind |-> "{}"]
StatusReply(server_running, server_pid) ==
    [kind |-> "status", portal_running |-> TRUE, server_running |-> server_running,
     server_pid |-> server_pid]

\* the record of a step: the handler that ran, the operation and argument it
\* got, the notice it sent and its reply; for the session operations also the
\* session named, the session data sent back and what ran after the send
Step(handler, op, arg, sent, reply) ==
    [handler |-> handler, op |-> op, arg |-> arg, sent |-> sent, reply |-> reply,
     sessid |-> 0, sessiondata |-> {}, then |-> "none"]

\* no handler ran in the step just taken
Idle == Step("none", "none", "none", "none", NoReply)

Init ==
    /\ transport = [c \in Conns |-> "none"]
    /\ peer = [c \in Conns |-> NoPeer]
    /\ amp_protocol = NoConn
    /\ server_connection = NoConn
    /\ disconnect_callbacks = <<>>
    /\ server_process_id = NonePid
    /\ server_twistd_cmd = NoCmd
    /\ server_restart_mode = FALSE
    /\ portal_running = TRUE
    /\ sessions = <<>>
    /\ pending = [c \in Conns |-> FALSE]
    /\ alive = {}
    /\ nspawn = 0
    /\ lastSpawn = [cmd |-> NoCmd, ok |-> FALSE, pid |-> 0]
    /\ adminConn = NoConn
    /\ lastReg = [c \in Conns |-> NoCallback]
    /\ fired = [c \in Conns |-> <<>>]
    /\ last = Idle
    /\ logged = <<>>


(* ---- helpers ---- *)

\* dict.pop emptying the dict
DictPop_all(d, k) == <<>>

\* dict.pop(key, default) and dict[key] = value on factory.disconnect_callbacks
DictGet(d, k) == IF k \in DOMAIN d THEN d[k] ELSE NoCallback
DictPop(d, k) == [x \in DOMAIN d \ {k} |-> d[x]]
DictSet(d, k, v) == [x \in DOMAIN d \cup {k} |-> IF x = k THEN v ELSE d[x]]

\* server_connected with the test of transport.connected negated
ServerConnected_inverted ==
    /\ server_connection # NoConn
    /\ transport[server_connection] # "open"

\* server_connected, as both the status and the launcher handler compute it
ServerConnected ==
    /\ server_connection # NoConn
    /\ transport[server_connection] = "open"

\* start_server: Popen succeeds (ok) or raises, as it always does for a command
\* of None; the pid of the k-th attempt is k
StartServerReturn(ok) == IF ok THEN nspawn + 1 ELSE 0

\* start_server storing the launch argument before Popen is tried
start_server_keepsCmd(server_twistd_cmd_arg, ok, running) ==
    /\ server_twistd_cmd_arg = NoCmd => ~ok
    /\ nspawn' = nspawn + 1
    /\ lastSpawn' = [cmd |-> server_twistd_cmd_arg, ok |-> ok, pid |-> StartServerReturn(ok)]
    /\ server_twistd_cmd' = server_twistd_cmd_arg
    /\ IF ok
       THEN /\ server_process_id' = nspawn + 1
            /\ alive' = running \cup {nspawn + 1}
       ELSE /\ server_process_id' = NonePid
            /\ alive' = running

start_server(server_twistd_cmd_arg, ok, running) ==
    /\ server_twistd_cmd_arg = NoCmd => ~ok
    /\ nspawn' = nspawn + 1
    /\ lastSpawn' = [cmd |-> server_twistd_cmd_arg, ok |-> ok, pid |-> StartServerReturn(ok)]
    /\ IF ok
       THEN /\ server_process_id' = nspawn + 1
            /\ server_twistd_cmd' = server_twistd_cmd_arg
            /\ alive' = running \cup {nspawn + 1}
       ELSE /\ server_process_id' = NonePid
            /\ alive' = running
            /\ UNCHANGED server_twistd_cmd

procVars == <<server_process_id, server_twistd_cmd, nspawn, lastSpawn>>
spawnVars == <<procVars, alive>>

\* wait_for_disconnect keeping an earlier registration (dict.setdefault)
wait_for_disconnect_keepfirst(self, callback) ==
    IF self \in DOMAIN disconnect_callbacks
    THEN disconnect_callbacks
    ELSE DictSet(disconnect_callbacks, self, callback)

\* wait_for_disconnect: the value of factory.disconnect_callbacks after the call
wait_for_disconnect(self, callback) == DictSet(disconnect_callbacks, self, callback)

\* stop_server: the operation code of the notice it sends
stop_server(mode) ==
    IF mode = "reload" THEN SRELOAD
    ELSE IF mode = "reset" THEN SRESET
    ELSE IF mode = "shutdown" THEN SSHUTD
    ELSE "none"

\* data_out: one more call awaits its reply on the connection to the Server
data_out(target) == [pending EXCEPT ![target] = TRUE]

\* what catch_traceback and the dispatcher make of a handler that raised
HandlerError(txt) == [kind |-> "error", success |-> FALSE, txt |-> txt]

RetvalTxt(success, txt) == [kind |-> "retval", success |-> success, txt |-> txt]

(* ---- connections ---- *)

\* AMPServerFactory.buildProtocol
buildProtocol(p) ==
    /\ portal_running
    /\ amp_protocol < MaxConns
    /\ amp_protocol' = amp_protocol + 1
    /\ transport' = [transport EXCEPT ![amp_protocol + 1] = "open"]
    /\ peer' = [peer EXCEPT ![amp_protocol + 1] = p]
    /\ last' = Idle
    /\ UNCHANGED <<server_connection, disconnect_callbacks, server_restart_mode,
                   portal_running, sessions, logged, pending, adminConn, lastReg, fired>>
    /\ UNCHANGED spawnVars

\* the launcher connects
LauncherConnect == buildProtocol(LauncherPeer)

\* a running Server process that holds no open connection connects
ServerConnect(p) ==
    /\ p \in alive
    /\ \A c \in Conns : transport[c] = "open" => peer[c] # ServerPeer(p)
    /\ buildProtocol(ServerPeer(p))

\* the callback called outside any try: its exception leaves connectionLost
callback_raised_uncaught(callback, ok) ==
    IF callback = ShutdownCb /\ ~ok THEN "raise" ELSE "none"

\* what becomes of an exception of the callback: start_server raises none,
\* portal.shutdown may (~ok), and the except clause logs it
callback_raised(callback, ok) ==
    IF callback = ShutdownCb /\ ~ok THEN "log_trace" ELSE "none"

\* connectionLost reading the registration without removing it (dict.get)
connectionLost_nopop(self, ok, running) ==
    LET callback == DictGet(disconnect_callbacks, self)
    IN  /\ UNCHANGED disconnect_callbacks
        /\ IF callback # NoCallback
           THEN /\ fired' = [fired EXCEPT ![self] = Append(@, callback)]
                /\ IF callback.fn = "start_server"
                   THEN /\ nspawn < MaxSpawns
                        /\ start_server(callback.arg, ok, running)
                        /\ UNCHANGED portal_running
                   ELSE /\ portal_running' = (IF ok THEN FALSE ELSE portal_running)
                        /\ alive' = running
                        /\ UNCHANGED procVars
           ELSE /\ ok
                /\ alive' = running
                /\ UNCHANGED <<fired, portal_running>>
                /\ UNCHANGED procVars

\* AMPServerProtocol.connectionLost; `running` are the Server processes left
\* once the peer of this connection is gone. start_server catches a failing
\* Popen itself; portal.shutdown either stops the Portal (ok) or raises, and
\* the raise is caught and logged here
connectionLost(self, ok, running) ==
    LET callback == DictGet(disconnect_callbacks, self)
    IN  /\ disconnect_callbacks' = DictPop(disconnect_callbacks, self)
        /\ IF callback # NoCallback
           THEN /\ fired' = [fired EXCEPT ![self] = Append(@, callback)]
                /\ IF callback.fn = "start_server"
                   THEN /\ nspawn < MaxSpawns
                        /\ start_server(callback.arg, ok, running)
                        /\ UNCHANGED portal_running
                   ELSE /\ portal_running' = (IF ok THEN FALSE ELSE portal_running)
                        /\ alive' = running
                        /\ UNCHANGED procVars
           ELSE /\ ok
                /\ alive' = running
                /\ UNCHANGED <<fired, portal_running>>
                /\ UNCHANGED procVars

\* the transport closes and Twisted delivers connectionLost; a delivery to a
\* protocol that is already closed ("again") runs the same code
ConnectionLost(self, ok) ==
    /\ portal_running
    /\ transport[self] \in {"open", "closed"}
    /\ Len(fired[self]) < MaxFired
    /\ transport' = [transport EXCEPT ![self] = "closed"]
    /\ connectionLost(self, ok, alive \ {peer[self].pid})
    /\ last' = [Step("connectionLost",
                     IF transport[self] = "open" THEN "first" ELSE "again",
                     "none", "none", NoReply)
                EXCEPT !.then = callback_raised(DictGet(disconnect_callbacks, self), ok)]
    /\ peer' = [peer EXCEPT ![self] = NoPeer]
    /\ UNCHANGED <<amp_protocol, server_connection, server_restart_mode,
                   sessions, logged, pending, adminConn, lastReg>>

\* the Server has answered every call the Portal made on this connection
ReplyReceived(self) ==
    /\ portal_running
    /\ transport[self] = "open"
    /\ pending[self]
    /\ pending' = [pending EXCEPT ![self] = FALSE]
    /\ last' = Idle
    /\ UNCHANGED <<transport, peer, amp_protocol, server_connection, disconnect_callbacks,
                   server_restart_mode, portal_running, sessions, logged, adminConn,
                   lastReg, fired>>
    /\ UNCHANGED spawnVars

(* ---- the status and launcher handlers ---- *)

\* portal_receive_status
portal_receive_status(self) ==
    LET server_connected == ServerConnected
        server_pid == server_process_id
    IN  /\ portal_running
        /\ transport[self] = "open"
        /\ last' = Step("status", "none", "none", "none",
                        StatusReply(server_connected, server_pid))
        /\ UNCHANGED <<transport, peer, amp_protocol, server_connection,
                       disconnect_callbacks, server_restart_mode, portal_running,
                       sessions, logged, pending, adminConn, lastReg, fired>>
        /\ UNCHANGED spawnVars

\* the launcher branches with the "already running" test of SSTART missing
LauncherBranch_startAlways(operation, server_connected) ==
    IF operation = SSTART
    THEN "start"
    ELSE IF operation = SRELOAD
    THEN (IF server_connected THEN "stop_reload" ELSE "start")
    ELSE IF operation = SRESET
    THEN (IF server_connected THEN "stop_reset" ELSE "start")
    ELSE IF operation = SSHUTD
    THEN (IF server_connected THEN "stop_shutdown" ELSE "not_running")
    ELSE IF operation = PSHUTD
    THEN (IF server_connected THEN "stop_shutdown" ELSE "portal_shutdown")
    ELSE "raise"

\* the launcher branches with SRELOAD doing nothing when no Server is connected
LauncherBranch_reloadNoStart(operation, server_connected) ==
    IF operation = SSTART
    THEN (IF server_connected THEN "already_running" ELSE "start")
    ELSE IF operation = SRELOAD
    THEN (IF server_connected THEN "stop_reload" ELSE "not_running")
    ELSE IF operation = SRESET
    THEN (IF server_connected THEN "stop_reset" ELSE "start")
    ELSE IF operation = SSHUTD
    THEN (IF server_connected THEN "stop_shutdown" ELSE "not_running")
    ELSE IF operation = PSHUTD
    THEN (IF server_connected THEN "stop_shutdown" ELSE "portal_shutdown")
    ELSE "raise"

\* the launcher branches with the final else missing: an unknown code starts the Server
LauncherBranch_unknownStarts(operation, server_connected) ==
    IF operation = SSTART
    THEN (IF server_connected THEN "already_running" ELSE "start")
    ELSE IF operation = SRELOAD
    THEN (IF server_connected THEN "stop_reload" ELSE "start")
    ELSE IF operation = SRESET
    THEN (IF server_connected THEN "stop_reset" ELSE "start")
    ELSE IF operation = SSHUTD
    THEN (IF server_connected THEN "stop_shutdown" ELSE "not_running")
    ELSE IF operation = PSHUTD
    THEN (IF server_connected THEN "stop_shutdown" ELSE "portal_shutdown")
    ELSE "start"

\* the branch portal_receive_launcher2portal takes
LauncherBranch(operation, server_connected) ==
    IF operation = SSTART
    THEN (IF server_connected THEN "already_running" ELSE "start")
    ELSE IF operation = SRELOAD
    THEN (IF server_connected THEN "stop_reload" ELSE "start")
    ELSE IF operation = SRESET
    THEN (IF server_connected THEN "stop_reset" ELSE "start")
    ELSE IF operation = SSHUTD
    THEN (IF server_connected THEN "stop_shutdown" ELSE "not_running")
    ELSE IF operation = PSHUTD
    THEN (IF server_connected THEN "stop_shutdown" ELSE "portal_shutdown")
    ELSE "raise"

\* the arguments the launcher sends with an operation
LauncherArgs(operation) ==
    IF operation \in {SSTART, SRELOAD, SRESET} THEN Cmds ELSE {""}

\* portal_receive_launcher2portal
portal_receive_launcher2portal(self, operation, arguments, ok) ==
    LET server_connected == ServerConnected
        server_pid == server_process_id
        branch == LauncherBranch(operation, server_connected)
        me(sent, reply) == Step("launcher2portal", operation, arguments, sent, reply)
    IN  /\ portal_running
        /\ transport[self] = "open"
        /\ peer[self] = LauncherPeer
        /\ \/ /\ branch = "start"
              /\ nspawn < MaxSpawns
              /\ start_server(arguments, ok, alive)
              /\ last' = me("none", Retval(TRUE, "Server started with PID", StartServerReturn(ok)))
              /\ UNCHANGED <<pending, portal_running>>
           \/ /\ branch = "already_running"
              /\ ok
              /\ last' = me("none", Retval(FALSE, "Server already running at PID", server_pid))
              /\ UNCHANGED <<pending, portal_running>>
              /\ UNCHANGED spawnVars
           \/ /\ branch = "stop_reload"
              /\ ok
              /\ pending' = data_out(server_connection)
              /\ last' = me(stop_server("reload"), Fallback)
              /\ UNCHANGED portal_running
              /\ UNCHANGED spawnVars
           \/ /\ branch = "stop_reset"
              /\ ok
              /\ pending' = data_out(server_connection)
              /\ last' = me(stop_server("reset"), HandlerError("UnboundLocalError: spid"))
              /\ UNCHANGED <<portal_running>>
              /\ UNCHANGED spawnVars
           \/ /\ branch = "stop_shutdown"
              /\ ok
              /\ pending' = data_out(server_connection)
              /\ last' = me(stop_server("shutdown"), RetvalTxt(TRUE, "Server stopped."))
              /\ UNCHANGED <<portal_running>>
              /\ UNCHANGED spawnVars
           \/ /\ branch = "not_running"
              /\ ok
              /\ last' = me("none", RetvalTxt(FALSE, "Server not running"))
              /\ UNCHANGED <<pending, portal_running>>
              /\ UNCHANGED spawnVars
           \/ /\ branch = "portal_shutdown"
              /\ ok
              /\ portal_running' = FALSE
              /\ last' = me("none", Fallback)
              /\ UNCHANGED <<pending>>
              /\ UNCHANGED spawnVars
           \/ /\ branch = "raise"
              /\ ok
              /\ last' = me("none", HandlerError("operation not recognized."))
              /\ UNCHANGED <<pending, portal_running>>
              /\ UNCHANGED spawnVars
        /\ UNCHANGED <<transport, peer, amp_protocol, server_connection,
                       disconnect_callbacks, server_restart_mode, sessions, logged, adminConn,
                       lastReg, fired>>

(* ---- the session registry (portal.sessions) ---- *)

\* portal.sessions.server_logged_in / server_disconnect / server_disconnect_all
server_logged_in(sessid, data) == [sessions EXCEPT ![sessid] = data]
server_disconnect(sessid) == [s \in DOMAIN sessions \ {sessid} |-> sessions[s]]
server_disconnect_all == <<>>

\* portal.sessions.server_session_sync(sessiondata, clean)
server_session_sync(sessiondata, clean) ==
    LET keep == IF clean THEN DOMAIN sessions \cap DOMAIN sessiondata ELSE DOMAIN sessions
    IN  [s \in keep |-> IF s \in DOMAIN sessiondata THEN sessiondata[s] ELSE sessions[s]]

\* portal.sessions.get_all_sync_data()
get_all_sync_data == sessions

\* the session data a Server can push with SSYNC about the sessions `ids`
SyncData(ids) == UNION {[S -> SyncBlobs] : S \in SUBSET ids}

(* ---- the Server-facing handlers ---- *)

\* portal_receive_server2portal
portal_receive_server2portal(self, sessid) ==
    /\ portal_running
    /\ transport[self] = "open"
    /\ peer[self].role = "server"
    /\ last' = [Step("server2portal", "none", "none",
                     IF sessid \in DOMAIN sessions THEN "sessions.data_out" ELSE "none",
                     EmptyReply) EXCEPT !.sessid = sessid]
    /\ UNCHANGED <<transport, peer, amp_protocol, server_connection, disconnect_callbacks,
                   server_restart_mode, portal_running, sessions, logged, pending, adminConn,
                   lastReg, fired>>
    /\ UNCHANGED spawnVars

\* what a Server that knows of the sessions `ids` sends along with an admin
\* operation: (sessid, sessiondata, clean)
AdminArgs(operation, ids) ==
    IF operation = SLOGIN THEN {<<s, b, TRUE>> : s \in ids, b \in Blobs}
    ELSE IF operation = SDISCONN THEN {<<s, "none", TRUE>> : s \in ids}
    ELSE IF operation = SSYNC THEN {<<0, d, cl>> : d \in SyncData(ids), cl \in BOOLEAN}
    ELSE {<<0, "none", TRUE>>}

\* the Server connection kept once it is set (first writer wins)
store_server_connection_once(self) ==
    IF server_connection = NoConn THEN self ELSE server_connection

\* self.factory.server_connection = self
store_server_connection(self) == self

\* SLOGIN without the test of the looked-up session
session_login_unchecked(sessid, sessiondata) ==
    [s \in DOMAIN sessions \cup {sessid} |->
        IF s = sessid THEN sessiondata ELSE sessions[s]]

\* the SLOGIN branch: the registry after it
session_login(sessid, sessiondata) ==
    IF sessid \in DOMAIN sessions THEN server_logged_in(sessid, sessiondata) ELSE sessions

\* the SDISCONN branch: the registry after it
session_disconnect(sessid) ==
    IF sessid \in DOMAIN sessions THEN server_disconnect(sessid) ELSE sessions

\* the latest SLOGIN blobs of the sessions still in the registry
StillLogged(registry) == [s \in DOMAIN logged \cap DOMAIN registry |-> logged[s]]

\* session data as it is packed for the wire: the (sessid, blob) pairs
Packed(sessiondata) == {<<s, sessiondata[s]>> : s \in DOMAIN sessiondata}

\* the PSYNC branch sending back only the sessions a SLOGIN was handled for
psync_sessiondata_logged == Packed(logged)

\* the PSYNC branch: the sessiondata of the AdminPortal2Server call it sends
psync_sessiondata == Packed(get_all_sync_data)

\* portal_receive_adminserver2portal
portal_receive_adminserver2portal(self, operation, args) ==
    LET sessid == args[1]
        sessiondata == args[2]
        clean == args[3]
        me(sent, reply) ==
            [Step("adminserver2portal", operation, "none", sent, reply) EXCEPT
                !.sessid = sessid,
                !.sessiondata = IF operation = PSYNC THEN psync_sessiondata ELSE {},
                !.then = IF operation = PSYNC THEN "at_server_connection" ELSE "none"]
    IN  /\ portal_running
        /\ transport[self] = "open"
        /\ peer[self].role = "server"
        /\ server_connection' = store_server_connection(self)
        /\ adminConn' = self
        /\ \/ /\ operation = SLOGIN
              /\ sessions' = session_login(sessid, sessiondata)
              /\ logged' = IF sessid \in DOMAIN sessions'
                           THEN DictSet(logged, sessid, sessions'[sessid]) ELSE logged
              /\ last' = me("none", EmptyReply)
              /\ UNCHANGED <<disconnect_callbacks, lastReg, pending,
                             server_restart_mode>>
           \/ /\ operation = SDISCONN
              /\ sessions' = session_disconnect(sessid)
              /\ logged' = StillLogged(sessions')
              /\ last' = me("none", EmptyReply)
              /\ UNCHANGED <<disconnect_callbacks, lastReg, pending,
                             server_restart_mode>>
           \/ /\ operation = SDISCONNALL
              /\ sessions' = server_disconnect_all
              /\ logged' = StillLogged(sessions')
              /\ last' = me("none", EmptyReply)
              /\ UNCHANGED <<disconnect_callbacks, lastReg, pending,
                             server_restart_mode>>
           \/ /\ operation \in {SRELOAD, SRESET}
              /\ disconnect_callbacks' =
                    wait_for_disconnect(server_connection', StartServerCb(server_twistd_cmd))
              /\ lastReg' = [lastReg EXCEPT
                                ![server_connection'] = StartServerCb(server_twistd_cmd)]
              /\ pending' = data_out(self)
              /\ last' = me(stop_server(IF operation = SRELOAD THEN "reload" ELSE "reset"),
                            EmptyReply)
              /\ UNCHANGED <<sessions, logged, server_restart_mode>>
           \/ /\ operation = SSHUTD
              /\ pending' = data_out(self)
              /\ last' = me(stop_server("shutdown"), EmptyReply)
              /\ UNCHANGED <<disconnect_callbacks, lastReg, sessions, logged,
                             server_restart_mode>>
           \/ /\ operation = PSHUTD
              /\ disconnect_callbacks' = wait_for_disconnect(server_connection', ShutdownCb)
              /\ lastReg' = [lastReg EXCEPT ![server_connection'] = ShutdownCb]
              /\ pending' = data_out(self)
              /\ last' = me(stop_server("shutdown"), EmptyReply)
              /\ UNCHANGED <<sessions, logged, server_restart_mode>>
           \/ /\ operation = PSYNC
              /\ pending' = data_out(self)
              /\ last' = me(PSYNC, EmptyReply)
              /\ UNCHANGED <<disconnect_callbacks, lastReg, sessions, logged,
                             server_restart_mode>>
           \/ /\ operation = SSYNC
              /\ sessions' = server_session_sync(sessiondata, clean)
              /\ logged' = StillLogged(sessions')
              /\ server_restart_mode' = TRUE
              /\ last' = me("none", EmptyReply)
              /\ UNCHANGED <<disconnect_callbacks, lastReg, pending>>
           \/ /\ operation = SCONN
              /\ last' = me("sessions.server_connect", EmptyReply)
              /\ UNCHANGED <<disconnect_callbacks, lastReg, pending, sessions,
                             logged, server_restart_mode>>
           \/ /\ operation \notin AdminOps \ {BADOP}
              /\ last' = me("none", HandlerError("operation not recognized."))
              /\ UNCHANGED <<disconnect_callbacks, lastReg, pending, sessions,
                             logged, server_restart_mode>>
        /\ UNCHANGED <<transport, peer, amp_protocol, portal_running, fired>>
        /\ UNCHANGED spawnVars

(* ---- the Portal with client sessions and Servers it did not spawn ---- *)

\* a Server process that this Portal did not spawn (one that outlived an
\* earlier Portal, or was started by hand) connects
ServerReconnect == buildProtocol(ServerPeer(0))

\* a client connects and the Portal's session handler registers its session
ClientConnect(sessid) ==
    /\ portal_running
    /\ sessid \notin DOMAIN sessions
    /\ sessions' = [s \in DOMAIN sessions \cup {sessid} |->
                        IF s = sessid THEN InitBlob ELSE sessions[s]]
    /\ UNCHANGED logged
    /\ last' = Idle
    /\ UNCHANGED <<transport, peer, amp_protocol, server_connection, disconnect_callbacks,
                   server_restart_mode, portal_running, pending, adminConn, lastReg, fired>>
    /\ UNCHANGED spawnVars

\* a client disconnects and its session is dropped
ClientDisconnect(sessid) ==
    /\ portal_running
    /\ sessid \in DOMAIN sessions
    /\ sessions' = server_disconnect(sessid)
    /\ logged' = StillLogged(sessions')
    /\ last' = Idle
    /\ UNCHANGED <<transport, peer, amp_protocol, server_connection, disconnect_callbacks,
                   server_restart_mode, portal_running, pending, adminConn, lastReg, fired>>
    /\ UNCHANGED spawnVars

(* ---- the specification ---- *)

\* the Portal while no client is connected: the registry is empty and the
\* Server names only a session that is gone
StaleSessIds == {101}

Next ==
    \/ LauncherConnect
    \/ \E p \in Pids : ServerConnect(p)
    \/ \E c \in Conns, ok \in BOOLEAN : ConnectionLost(c, ok)
    \/ \E c \in Conns : ReplyReceived(c)
    \/ \E c \in Conns : portal_receive_status(c)
    \/ \E c \in Conns, op \in LauncherOps, ok \in BOOLEAN :
            \E a \in LauncherArgs(op) : portal_receive_launcher2portal(c, op, a, ok)
    \/ \E c \in Conns, s \in StaleSessIds : portal_receive_server2portal(c, s)
    \/ \E c \in Conns, op \in AdminOps :
            \E a \in AdminArgs(op, StaleSessIds) : portal_receive_adminserver2portal(c, op, a)

Spec == Init /\ [][Next]_vars

\* the same Portal with clients and with Servers it did not spawn, while
\* neither a restart nor a shutdown of the Portal is asked for: the operations
\* that call start_server or portal.shutdown are left out
SyncLauncherOps == LauncherOps \ {SSTART, SRELOAD, SRESET, PSHUTD}
SyncAdminOps == AdminOps \ {SRELOAD, SRESET, PSHUTD}

SyncNext ==
    \/ LauncherConnect
    \/ ServerReconnect
    \/ \E s \in SessIds : ClientConnect(s)
    \/ \E s \in SessIds : ClientDisconnect(s)
    \/ \E c \in Conns : ConnectionLost(c, TRUE)
    \/ \E c \in Conns : ReplyReceived(c)
    \/ \E c \in Conns : portal_receive_status(c)
    \/ \E c \in Conns, op \in SyncLauncherOps :
            portal_receive_launcher2portal(c, op, "", TRUE)
    \/ \E c \in Conns, s \in SessIds : portal_receive_server2portal(c, s)
    \/ \E c \in Conns, op \in SyncAdminOps :
            \E a \in AdminArgs(op, SessIds) : portal_receive_adminserver2portal(c, op, a)

SyncSpec == Init /\ [][SyncNext]_vars

(* ---- properties ---- *)

\* the connection the latest admin message came in on is open: the Server is connected
CoreConnected == adminConn # NoConn /\ transport[adminConn] = "open"

\* the launcher operations that carry a launch command
SpawnOps == {SSTART, SRELOAD, SRESET}

\* every variable but the record of the step
stateVars == <<transport, peer, amp_protocol, server_connection, disconnect_callbacks,
               server_process_id, server_twistd_cmd, server_restart_mode, portal_running,
               sessions, pending, alive, nspawn, lastSpawn, adminConn, lastReg, fired,
               logged>>

\* C1: the launcher's reload is handled while the Server is connected and a
\* start command is cached: the reply is no failure, and the step after it
\* spawns nothing if the Server connection stays open and calls start_server
\* once, with the cached command, if it closes that connection.
C1_ReloadRespawnsOnDisconnect ==
    [][ (/\ last.handler = "launcher2portal"
         /\ last.op = SRELOAD
         /\ CoreConnected
         /\ server_twistd_cmd # NoCmd)
        => /\ last.reply.kind # "error"
           /\ (last.reply.kind = "retval" => last.reply.success)
           /\ (transport'[adminConn] = "open" => nspawn' = nspawn)
           /\ (transport'[adminConn] = "closed"
                 => /\ nspawn' = nspawn + 1
                    /\ lastSpawn'.cmd = server_twistd_cmd) ]_vars

\* C2: a registered disconnect action runs at most once, only once its
\* connection is closed and its registration is removed, and only if
\* something was registered for that connection.
C2_CallbackOnlyAfterCloseAtMostOnce ==
    \A c \in Conns :
        /\ Len(fired[c]) <= 1
        /\ fired[c] # <<>> =>
              /\ transport[c] = "closed"
              /\ c \notin DOMAIN disconnect_callbacks
              /\ lastReg[c] # NoCallback

C2_Witness ==
    \E c \in Conns :
        /\ transport[c] = "closed"
        /\ Len(fired[c]) = 1
        /\ last.handler = "connectionLost"
        /\ last.op = "first"

\* C3: after a connection with one or more registrations has closed, exactly
\* one action has run and it is the one registered last; a further
\* connectionLost for it runs nothing more; with no registration nothing runs.
C3_LastRegistrationWins ==
    \A c \in Conns :
        transport[c] = "closed" =>
            fired[c] = (IF lastReg[c] = NoCallback THEN <<>> ELSE <<lastReg[c]>>)

C3_Witness ==
    \E c \in Conns :
        /\ transport[c] = "closed"
        /\ lastReg[c] # NoCallback
        /\ fired[c] = <<lastReg[c]>>
        /\ last.handler = "connectionLost"
        /\ last.op = "again"

\* C4: the launcher's start, handled while the Server is connected, spawns
\* nothing, leaves the pid and the cached command as they were and replies
\* success False.
C4_StartWhileConnectedRefused ==
    [][ (/\ last'.handler = "launcher2portal"
         /\ last'.op = SSTART
         /\ CoreConnected)
        => /\ nspawn' = nspawn
           /\ alive' = alive
           /\ server_process_id' = server_process_id
           /\ server_twistd_cmd' = server_twistd_cmd
           /\ last'.reply.kind = "retval"
           /\ last'.reply.success = FALSE ]_vars

C4_Witness ==
    /\ last.handler = "launcher2portal"
    /\ last.op = SSTART
    /\ CoreConnected
    /\ last.reply.kind = "retval"
    /\ last.reply.success = FALSE
    /\ server_process_id # NonePid

\* C5 as stated: start, reload and reset handled while no Server is connected
\* spawn a process with the command of the request, and the reply carries
\* the pid then stored, which is not None.
C5_SpawnsAndRepliesPid ==
    (/\ last.handler = "launcher2portal"
     /\ last.op \in SpawnOps
     /\ ~CoreConnected)
    => /\ lastSpawn.ok
       /\ lastSpawn.cmd = last.arg
       /\ last.reply.kind = "retval"
       /\ last.reply.spid = server_process_id
       /\ server_process_id # NonePid

\* C5 amended: start, reload and reset handled while no Server is connected
\* call start_server exactly once with the command of the request; when the
\* launch succeeds exactly one new process runs and the reply carries its
\* pid, which is the pid then stored; when it fails no process is added.
C5_SpawnsOnceWhenLaunchSucceeds ==
    [][ (/\ last'.handler = "launcher2portal"
         /\ last'.op \in SpawnOps
         /\ ~CoreConnected)
        => /\ nspawn' = nspawn + 1
           /\ lastSpawn'.cmd = last'.arg
           /\ last'.reply.kind = "retval"
           /\ IF lastSpawn'.ok
              THEN /\ Cardinality(alive' \ alive) = 1
                   /\ alive \subseteq alive'
                   /\ server_process_id' \in alive' \ alive
                   /\ last'.reply.spid = server_process_id'
                   /\ server_process_id' # NonePid
              ELSE alive' = alive ]_vars

C5_Witness ==
    /\ last.handler = "launcher2portal"
    /\ last.op = SRESET
    /\ ~CoreConnected
    /\ lastSpawn.ok
    /\ last.reply.kind = "retval"
    /\ last.reply.spid = server_process_id
    /\ server_process_id \in alive

\* C6: when start, reload or reset is handled while no Server is connected
\* and the launch fails, the stored pid is None and the reply says
\* success False.
C6_SpawnFailureReported ==
    (/\ last.handler = "launcher2portal"
     /\ last.op \in SpawnOps
     /\ ~CoreConnected
     /\ ~lastSpawn.ok)
    => /\ server_process_id = NonePid
       /\ last.reply.kind \in {"retval", "error"}
       /\ last.reply.success = FALSE

\* C7: the cached command changes only in a step whose launch succeeded, and
\* is then the command just launched, stored with the new pid; a failed
\* launch sets the pid to None and leaves the cached command as it was.
C7_CommandCachedOnlyOnSuccess ==
    [][ /\ server_twistd_cmd' # server_twistd_cmd
            => /\ nspawn' = nspawn + 1
               /\ lastSpawn'.ok
               /\ server_twistd_cmd' = lastSpawn'.cmd
               /\ server_process_id' = lastSpawn'.pid
        /\ (nspawn' = nspawn + 1 /\ lastSpawn'.ok)
            => /\ server_twistd_cmd' = lastSpawn'.cmd
               /\ server_process_id' = lastSpawn'.pid
        /\ (nspawn' = nspawn + 1 /\ ~lastSpawn'.ok)
            => /\ server_process_id' = NonePid
               /\ server_twistd_cmd' = server_twistd_cmd ]_vars

C7_Witness ==
    /\ nspawn > 1
    /\ ~lastSpawn.ok
    /\ server_process_id = NonePid
    /\ server_twistd_cmd \in Cmds
    /\ server_twistd_cmd # lastSpawn.cmd

\* C8: once connectionLost has run for a connection, no call made on it
\* still awaits its reply.
C8_NoCallPendingAfterClose ==
    \A c \in Conns : transport[c] = "closed" => ~pending[c]

\* C9: an operation code the launcher handler does not know gets a failure
\* reply (success False), spawns nothing and changes no state of the Portal
\* or the factory; the connection it came in on stays open.
C9_UnknownOperationRejected ==
    [][ (/\ last'.handler = "launcher2portal"
         /\ last'.op \notin {SSTART, SRELOAD, SRESET, SSHUTD, PSHUTD})
        => /\ last'.reply.kind = "error"
           /\ last'.reply.success = FALSE
           /\ UNCHANGED stateVars
           /\ \E c \in Conns : transport'[c] = "open" /\ peer'[c] = LauncherPeer ]_vars

C9_Witness ==
    /\ last.handler = "launcher2portal"
    /\ last.op = BADOP
    /\ last.reply.kind = "error"
    /\ portal_running
    /\ \E c \in Conns : transport[c] = "open" /\ peer[c] = LauncherPeer

ControlHandlers == {"launcher2portal", "adminserver2portal"}

\* C11: once PSHUTD has been handled with the Server connected, on the
\* launcher's or on the Server's channel, the shutdown notice has been sent
\* and portal.shutdown(restart=False) is registered on the Server connection,
\* to run when it closes.
C11_ShutdownAllRegistersPortalShutdown ==
    (/\ last.handler \in ControlHandlers
     /\ last.op = PSHUTD
     /\ CoreConnected)
    => /\ last.sent = SSHUTD
       /\ DictGet(disconnect_callbacks, adminConn) = ShutdownCb

\* C12: the launcher's reset, handled with the Server connected, has sent the
\* reset notice, has registered start_server with the cached command on the
\* Server connection and replies success True.
C12_ResetWhileConnectedRegistersRespawn ==
    (/\ last.handler = "launcher2portal"
     /\ last.op = SRESET
     /\ CoreConnected)
    => /\ last.sent = SRESET
       /\ DictGet(disconnect_callbacks, adminConn) = StartServerCb(server_twistd_cmd)
       /\ last.reply.kind = "retval"
       /\ last.reply.success

\* C13: SSHUTD handled with the Server connected sends the shutdown notice
\* and calls start_server neither in the handler nor when the Server
\* connection closes next, whatever was handled on that connection before.
C13_ShutdownCoreNeverRespawns ==
    [][ /\ (/\ last'.handler \in ControlHandlers
            /\ last'.op = SSHUTD
            /\ adminConn' # NoConn
            /\ transport'[adminConn'] = "open")
           => (last'.sent = SSHUTD /\ nspawn' = nspawn)
        /\ (/\ last.handler \in ControlHandlers
            /\ last.op = SSHUTD
            /\ CoreConnected
            /\ transport'[adminConn] = "closed")
           => nspawn' = nspawn ]_vars

\* C14: factory.server_connection is the connection the latest admin message
\* came in on, whichever connections sent admin messages before, and the
\* status and the launcher handler judge the Server connected by that
\* connection alone.
C14_LastAdminSenderIsServerConnection ==
    /\ server_connection = adminConn
    /\ last.handler = "status" => (last.reply.server_running <=> CoreConnected)
    /\ (last.handler = "launcher2portal" /\ last.op = SSHUTD)
          => /\ last.reply.success <=> CoreConnected
             /\ (last.sent = SSHUTD) <=> CoreConnected

C14_Witness ==
    /\ last.handler = "status"
    /\ last.reply.server_running
    /\ \E c1, c2 \in Conns :
          /\ c1 < c2
          /\ adminConn = c1
          /\ transport[c2] = "open"
          /\ pending[c2]

\* C16: SLOGIN or SDISCONN, or a session message, naming a sessid that is not
\* in the registry changes neither the registry nor the process record,
\* spawns nothing, raises nothing and gets the normal empty reply.
C16_UnknownSessionIsNoOp ==
    [][ ((\/ (last'.handler = "adminserver2portal" /\ last'.op \in {SLOGIN, SDISCONN})
          \/ last'.handler = "server2portal")
         /\ last'.sessid \notin DOMAIN sessions)
        => /\ sessions' = sessions
           /\ UNCHANGED <<procVars, alive, disconnect_callbacks, portal_running, transport>>
           /\ last'.reply = EmptyReply
           /\ last'.sent = "none" ]_vars

C16_Witness ==
    /\ last.handler = "adminserver2portal"
    /\ last.op = SLOGIN
    /\ last.sessid \notin DOMAIN sessions
    /\ sessions # <<>>
    /\ last.reply = EmptyReply

\* C17 as stated: the session data sent for PSYNC has exactly the sessids of
\* the registry, each with the blob the latest SLOGIN stored for it, and
\* at_server_connection runs after the data is sent.
C17_PortalSyncReturnsLoginBlobs ==
    (last.handler = "adminserver2portal" /\ last.op = PSYNC)
    => /\ {p[1] : p \in last.sessiondata} = DOMAIN sessions
       /\ \A p \in last.sessiondata : p[1] \in DOMAIN logged => p[2] = logged[p[1]]
       /\ last.sent = PSYNC
       /\ last.then = "at_server_connection"

\* C17 amended: the session data sent for PSYNC is the registry as it is at
\* that moment, sessid by sessid: a session's blob is the one its latest
\* SLOGIN stored unless a later SSYNC push replaced it; at_server_connection
\* runs after the data is sent.
C17_PortalSyncReturnsRegistry ==
    /\ (last.handler = "adminserver2portal" /\ last.op = PSYNC)
          => /\ last.sessiondata = Packed(sessions)
             /\ last.sent = PSYNC
             /\ last.then = "at_server_connection"
    /\ \A s \in DOMAIN logged :
          /\ s \in DOMAIN sessions
          /\ sessions[s] = logged[s] \/ sessions[s] \in SyncBlobs

C17_Witness ==
    /\ last.handler = "adminserver2portal"
    /\ last.op = PSYNC
    /\ {p[1] : p \in last.sessiondata} = SessIds
    /\ \E s, t \in DOMAIN logged :
          /\ <<s, logged[s]>> \in last.sessiondata
          /\ <<t, logged[t]>> \notin last.sessiondata

\* C15: when the callback that connectionLost calls raises, the exception is
\* logged and goes no further: connectionLost completes with the registration
\* of the connection removed and the others as they were, and a later
\* connectionLost of the same connection calls nothing.
C15_RaisingCallbackIsCaught ==
    [][ /\ \A c \in Conns :
              (/\ last'.handler = "connectionLost"
               /\ fired'[c] = Append(fired[c], ShutdownCb)
               /\ portal_running')
              => /\ last'.then = "log_trace"
                 /\ transport'[c] = "closed"
                 /\ disconnect_callbacks' =
                       [d \in DOMAIN disconnect_callbacks \ {c} |-> disconnect_callbacks[d]]
                 /\ \A d \in Conns \ {c} : fired'[d] = fired[d]
                 /\ UNCHANGED procVars
        /\ (last'.handler = "connectionLost" /\ last'.op = "again")
              => (fired' = fired /\ last'.then = "none") ]_vars

C15_Witness ==
    /\ last.handler = "connectionLost"
    /\ last.op = "again"
    /\ portal_running
    /\ \E c \in Conns :
          /\ transport[c] = "closed"
          /\ fired[c] = <<ShutdownCb>>
          /\ c \notin DOMAIN disconnect_callbacks

\* C18 as stated: once start_server is registered on a connection it stays
\* registered and unfired while the connection is open, and the step that
\* closes the connection runs start_server once with the captured command.
C18_RespawnRunsAtClose ==
    [][ \A c \in Conns :
          DictGet(disconnect_callbacks, c).fn = "start_server"
          => IF transport'[c] = "open"
             THEN /\ DictGet(disconnect_callbacks', c) = DictGet(disconnect_callbacks, c)
                  /\ fired'[c] = <<>>
             ELSE /\ fired'[c] = <<DictGet(disconnect_callbacks, c)>>
                  /\ nspawn' = nspawn + 1
                  /\ lastSpawn'.cmd = DictGet(disconnect_callbacks, c).arg ]_vars

\* C18: a Core-facing reload or reset registers start_server with the command
\* cached at that moment on the sending connection, sends the matching notice
\* and spawns nothing. A registered start_server is not run while its
\* connection is open, and is replaced only by a later reload, reset or
\* shutdown-all of that connection; the close of a connection whose current
\* registration is start_server runs it exactly once with the captured
\* command and removes the registration.
C18_CurrentRespawnRunsAtClose ==
    [][ /\ (last'.handler = "adminserver2portal" /\ last'.op \in {SRELOAD, SRESET})
           => /\ DictGet(disconnect_callbacks', adminConn') =
                    [fn |-> "start_server", arg |-> server_twistd_cmd]
              /\ transport'[adminConn'] = "open"
              /\ last'.sent = last'.op
              /\ nspawn' = nspawn
        /\ \A c \in Conns :
              DictGet(disconnect_callbacks, c).fn = "start_server"
              => IF transport'[c] = "open"
                 THEN /\ fired'[c] = <<>>
                      /\ \/ DictGet(disconnect_callbacks', c) = DictGet(disconnect_callbacks, c)
                         \/ /\ last'.handler = "adminserver2portal"
                            /\ last'.op \in {SRELOAD, SRESET, PSHUTD}
                            /\ adminConn' = c
                 ELSE /\ fired'[c] = <<DictGet(disconnect_callbacks, c)>>
                      /\ c \notin DOMAIN disconnect_callbacks'
                      /\ nspawn' = nspawn + 1
                      /\ lastSpawn'.cmd = DictGet(disconnect_callbacks, c).arg ]_vars

C18_Witness ==
    /\ last.handler = "connectionLost"
    /\ last.op = "first"
    /\ nspawn = 2
    /\ lastSpawn.ok
    /\ \E c \in Conns :
          /\ transport[c] = "closed"
          /\ fired[c] = <<[fn |-> "start_server", arg |-> lastSpawn.cmd]>>
          /\ c \notin DOMAIN disconnect_callbacks

\* C19: a spawn never happens while a process spawned earlier is alive: after
\* any step that spawns a process, no process but the new one is alive.
C19_AtMostOneCoreProcess ==
    [][ (nspawn' = nspawn + 1 /\ lastSpawn'.ok) => alive' \subseteq {lastSpawn'.pid} ]_vars

\* C20: every key of disconnect_callbacks is a connection that has not run
\* connectionLost, and the connectionLost of one connection leaves the
\* registration of every other connection in place and unfired.
C20_RegistrationsArePerConnection ==
    [][ /\ \A c \in DOMAIN disconnect_callbacks' : transport'[c] = "open"
        /\ last'.handler = "connectionLost"
           => \E c \in Conns :
                 /\ transport'[c] = "closed"
                 /\ c \notin DOMAIN disconnect_callbacks'
                 /\ \A d \in Conns \ {c} :
                       /\ DictGet(disconnect_callbacks', d) = DictGet(disconnect_callbacks, d)
                       /\ fired'[d] = fired[d] ]_vars

C20_Witness ==
    /\ last.handler = "connectionLost"
    /\ last.op = "first"
    /\ \E c, d \in Conns :
          /\ transport[d] = "closed"
          /\ lastReg[d] = NoCallback
          /\ fired[d] = <<>>
          /\ transport[c] = "open"
          /\ c \in DOMAIN disconnect_callbacks
          /\ fired[c] = <<>>

====
